---- MODULE Spec2Model ----
(***************************************************************************)
(* Model of the university assistant backend: the in-memory session store  *)
(* (session_store.py), the node handlers and routers of the conversation   *)
(* state machine (nodes/node_functions.py, nodes/routes.py), the workflow  *)
(* executor (utils/executor.py), the RAG client (utils/rag_client.py) and  *)
(* the HTTP handlers that wire them together (app.py).                     *)
(*                                                                         *)
(* Python strings are TLA+ strings; a Python dict is a function whose      *)
(* domain is its set of keys, so that a missing key and a key bound to     *)
(* None are different things, as they are for dict.get.                    *)
(***************************************************************************)
EXTENDS Integers, Sequences, FiniteSets, TLC

VARIABLES session_store, session_context, issued, last

vars == <<session_store, session_context, issued, last>>

----------------------------------------------------------------------------
(* Bounds of the model.                                                    *)

\* number of identifiers uuid4 hands out in one run
MaxSessions == 2
\* no operation is taken that leaves more history records than this in the
\* store, all sessions together
MaxRecords == 1

----------------------------------------------------------------------------
(* Python values.                                                          *)

\* Python's None; no string a user can type equals it
None == "<None>"

\* str(v) as an f-string renders it
Str(v) == IF v = None THEN "None" ELSE v

\* truth value of an optional string: None and "" are falsy
Truthy(v) == v # None /\ v # ""

EmptyDict == [k \in {} |-> None]

\* d[k] = v
Put(d, k, v) == [x \in (DOMAIN d) \cup {k} |-> IF x = k THEN v ELSE d[x]]

\* d.get(k, default)
Get(d, k, default) == IF k \in DOMAIN d THEN d[k] ELSE default

\* del d[k]
Del(d, k) == [x \in (DOMAIN d) \ {k} |-> d[x]]

\* d after the assignments d[k] = u[k], one for each key k of u
Update(d, u) ==
    [x \in (DOMAIN d) \cup (DOMAIN u) |-> IF x \in DOMAIN u THEN u[x] ELSE d[x]]

----------------------------------------------------------------------------
(* str methods.                                                            *)

Upper == "ABCDEFGHIJKLMNOPQRSTUVWXYZ"
Lower == "abcdefghijklmnopqrstuvwxyz"

LowerChar(c) ==
    IF \E i \in 1..Len(Upper) : SubSeq(Upper, i, i) = c
    THEN LET i == CHOOSE j \in 1..Len(Upper) : SubSeq(Upper, j, j) = c
         IN  SubSeq(Lower, i, i)
    ELSE c

RECURSIVE lower(_)
\* str.lower()
lower(s) ==
    IF Len(s) = 0 THEN ""
    ELSE LowerChar(SubSeq(s, 1, 1)) \o lower(SubSeq(s, 2, Len(s)))

IsSpace(c) == c \in {" ", "\t", "\n"}

RECURSIVE lstrip(_)
lstrip(s) ==
    IF Len(s) > 0 /\ IsSpace(SubSeq(s, 1, 1))
    THEN lstrip(SubSeq(s, 2, Len(s)))
    ELSE s

RECURSIVE rstrip(_)
rstrip(s) ==
    IF Len(s) > 0 /\ IsSpace(SubSeq(s, Len(s), Len(s)))
    THEN rstrip(SubSeq(s, 1, Len(s) - 1))
    ELSE s

\* str.strip()
strip(s) == rstrip(lstrip(s))

\* k in s
Contains(s, k) ==
    \E i \in 0..(Len(s) - Len(k)) : SubSeq(s, i + 1, i + Len(k)) = k

\* any(k in s for k in keywords)
AnyIn(keywords, s) == \E i \in 1..Len(keywords) : Contains(s, keywords[i])

RECURSIVE replace(_, _, _)
\* str.replace(old, new), old non-empty
replace(s, old, new) ==
    IF Len(s) < Len(old) THEN s
    ELSE IF SubSeq(s, 1, Len(old)) = old
         THEN new \o replace(SubSeq(s, Len(old) + 1, Len(s)), old, new)
         ELSE SubSeq(s, 1, 1) \o replace(SubSeq(s, 2, Len(s)), old, new)

----------------------------------------------------------------------------
(* utils/rag_client.py: UniversityRAGClient.                               *)

\* number of exchanges kept per session
MaxContext == 10

\* x or y
Or(x, y) == IF Truthy(x) THEN x ELSE y

\* the answer taken from a 200 response; data.isdict tells a JSON object
\* from any other JSON value, data.repr is str(data)
rag_response_of(data) ==
    IF data.isdict
    THEN Or(Get(data.dict, "response", None),
         Or(Get(data.dict, "answer", None),
         Or(Get(data.dict, "result", None),
         Or(Get(data.dict, "text", None), data.repr))))
    ELSE data.repr

AdmissionWords == <<"admission", "apply", "application">>
CourseWords == <<"course", "subject", "curriculum">>
FeeWords == <<"fee", "payment", "cost", "tuition">>
LibraryWords == <<"library", "book", "resource">>

_get_fallback_response(question) ==
    IF AnyIn(AdmissionWords, lower(question))
    THEN "For admission information, please visit the admissions office or check the university website. I'm currently unable to access the detailed admission database."
    ELSE IF AnyIn(CourseWords, lower(question))
    THEN "For course information, please contact the academic office or your department advisor. I'm having trouble accessing the course catalog right now."
    ELSE IF AnyIn(FeeWords, lower(question))
    THEN "For fee and payment information, please contact the finance office or check your student portal. I cannot access fee details at the moment."
    ELSE IF AnyIn(LibraryWords, lower(question))
    THEN "For library resources, please visit the university library or use the online catalog. I'm currently unable to access library information."
    ELSE "I'm sorry, I'm having trouble accessing the university information system right now. Please try asking again later, or contact the relevant university office directly for assistance."

\* the last n elements of a list: xs[-n:]
LastN(xs, n) == IF Len(xs) > n THEN SubSeq(xs, Len(xs) - n + 1, Len(xs)) ELSE xs

\* a context that would keep its first ten exchanges; C28 tells it apart
exchanges_after_oldest(old, exchange) ==
    IF Len(old) + 1 > MaxContext THEN old ELSE Append(old, exchange)

\* the exchanges of one session after one more: append, keep the last ten
exchanges_after(old, exchange) ==
    IF Len(old) + 1 > MaxContext THEN LastN(Append(old, exchange), MaxContext)
    ELSE Append(old, exchange)

\* the session context after a 200 response (the timestamp of an exchange,
\* a reading of the clock, is left out)
context_after(ctx, question, session_id, rag_response) ==
    IF Truthy(session_id)
    THEN Put(ctx, session_id,
             exchanges_after(Get(ctx, session_id, <<>>),
                             [question |-> question, response |-> rag_response]))
    ELSE ctx

\* a 200 response with the answer rag_response
answer_received(ctx, question, session_id, rag_response) ==
    [raised |-> FALSE, value |-> rag_response,
     ctx |-> context_after(ctx, question, session_id, rag_response)]

\* What the endpoint does with one request: outcome.kind is "ok" (status
\* 200, body outcome.data), "status" (any other status), or "connect",
\* "timeout", "error" (requests.post raises).  When requests.post raises,
\* the first except clause names requests.exceptions.ConnectException,
\* which requests does not define: evaluating it raises AttributeError,
\* and that exception leaves the method.
query_university_info(ctx, question, session_id, outcome) ==
    IF outcome.kind = "ok"
    THEN answer_received(ctx, question, session_id, rag_response_of(outcome.data))
    ELSE IF outcome.kind = "status"
    THEN [raised |-> FALSE, value |-> _get_fallback_response(question), ctx |-> ctx]
    ELSE [raised |-> TRUE, value |-> None, ctx |-> ctx]

\* a client that would keep the context of a session that ends; C29 tells
\* it apart
clear_session_context_kept(ctx, session_id) == ctx

\* a client that would forget every session when one ends; C30 tells it
\* apart
clear_session_context_all(ctx, session_id) == EmptyDict

clear_session_context(ctx, session_id) ==
    IF session_id \in DOMAIN ctx THEN Del(ctx, session_id) ELSE ctx

----------------------------------------------------------------------------
(* nodes/node_functions.py: the node handlers.  A handler returns the      *)
(* state it was given, changed in place, the RAG context, and the list of  *)
(* questions it sent to the RAG client.                                    *)

NamePrompt == "Hello! I'm your university assistant. What's your name?"

NiceToMeet(name) ==
    "Nice to meet you, " \o Str(name) \o "! I'm your university assistant. How can I help you today?"

NoInfoApology ==
    "I'm sorry, I don't have information about that. Could you please rephrase your question or ask about admissions, courses, campus facilities, or other university services?"

RagTroubleApology ==
    "I'm having trouble accessing the university information system right now. Please try again in a moment."

GoodbyeMessage(name) ==
    "Goodbye, " \o Str(name) \o "! Feel free to come back if you have more questions about our university."

\* a history that would keep only its newest record; C16 tells it apart
history_with_newest(state, record) == <<record>>

\* state["history"] after append(record); the list is created when the key
\* is missing
history_with(state, record) == Append(Get(state, "history", <<>>), record)

\* a handler that would count the names it was given; C15 tells it apart
name_given_counted(state, user_input) ==
    Update(state,
           [name |-> strip(user_input),
            current_node |-> "university_chat",
            retry_count |-> Get(state, "retry_count", 0) + 1,
            next_question |-> NiceToMeet(strip(user_input)),
            history |-> history_with(state,
                            [user |-> user_input,
                             assistant |-> NiceToMeet(strip(user_input))])])

\* the branch of collect_name taken on a user input
name_given(state, user_input) ==
    Update(state,
           [name |-> strip(user_input),
            current_node |-> "university_chat",
            next_question |-> NiceToMeet(strip(user_input)),
            history |-> history_with(state,
                            [user |-> user_input,
                             assistant |-> NiceToMeet(strip(user_input))])])

\* a greeting that would not ask for the name; C17 tells it apart
initial_greeting_silent(state) == Put(state, "current_node", "collect_name")

\* a greeting that would also reopen the conversation; C6 tells it apart
initial_greeting_reopening(state) ==
    Update(state, [current_node |-> "collect_name", next_question |-> NamePrompt,
                   conversation_ended |-> FALSE])

\* the branch of collect_name taken without user input
initial_greeting(state) ==
    Update(state, [current_node |-> "collect_name", next_question |-> NamePrompt])

collect_name(state, user_input, ctx, outcome) ==
    [state |-> IF Truthy(user_input) THEN name_given(state, user_input)
               ELSE initial_greeting(state),
     ctx |-> ctx, sent |-> <<>>]

goodbye_phrases == <<"bye", "goodbye", "see you", "thanks", "thank you", "exit", "quit">>

\* next_question after the RAG call
rag_answer_text(r) ==
    IF r.raised THEN RagTroubleApology
    ELSE IF Truthy(r.value) /\ Truthy(strip(r.value)) THEN r.value
    ELSE NoInfoApology

\* the end of university_chat: r is what the RAG client did with input
rag_answered(state, input, r) ==
    [state |-> Update(state,
                      [next_question |-> rag_answer_text(r),
                       history |-> history_with(state,
                                       [user |-> input,
                                        assistant |-> rag_answer_text(r)]),
                       current_node |-> "university_chat"]),
     ctx |-> r.ctx, sent |-> <<input>>]

\* university_chat on the stripped, lower-cased input
university_chat_on(state, input, ctx, outcome) ==
    IF AnyIn(goodbye_phrases, input)
    THEN [state |-> Put(state, "current_node", "goodbye"), ctx |-> ctx, sent |-> <<>>]
    ELSE rag_answered(state, input,
                      query_university_info(ctx, input,
                                            Get(state, "session_id", "default"),
                                            outcome))

university_chat(state, user_input, ctx, outcome) ==
    IF ~Truthy(user_input)
    THEN [state |-> state, ctx |-> ctx, sent |-> <<>>]
    ELSE university_chat_on(state, lower(strip(user_input)), ctx, outcome)

\* a goodbye that would not mark the conversation ended; C7 tells it apart
said_goodbye_unmarked(state, message) ==
    Update(state,
           [next_question |-> message,
            current_node |-> "goodbye",
            history |-> history_with(state, [assistant |-> message])])

\* the state the goodbye handler leaves
said_goodbye(state, message) ==
    Update(state,
           [next_question |-> message,
            conversation_ended |-> TRUE,
            current_node |-> "goodbye",
            history |-> history_with(state, [assistant |-> message])])

goodbye(state, user_input, ctx, outcome) ==
    [state |-> said_goodbye(state, GoodbyeMessage(Get(state, "name", "there"))),
     ctx |-> IF Truthy(Get(state, "session_id", None))
             THEN clear_session_context(ctx, Get(state, "session_id", None))
             ELSE ctx,
     sent |-> <<>>]

----------------------------------------------------------------------------
(* nodes/routes.py: the routers.  A router returns the next node name or   *)
(* raises.                                                                 *)

\* langgraph.graph.END
END == "__end__"

\* a router that would end the conversation at the name; C26 tells it apart
collect_name_router_ending(state) ==
    [raised |-> FALSE, exc |-> "", node |-> END]

collect_name_router(state) ==
    [raised |-> FALSE, exc |-> "",
     node |-> IF Get(state, "collect_name_result", None) = None
              THEN "collect_name" ELSE "university_chat"]

goodbye_keywords == <<"goodbye", "bye", "exit", "quit", "end", "stop", "thanks", "thank you">>

\* state.get("last_query", "").lower(): None has no method lower
university_chat_router(state) ==
    IF Get(state, "last_query", "") = None
    THEN [raised |-> TRUE, exc |-> "'NoneType' object has no attribute 'lower'",
          node |-> None]
    ELSE [raised |-> FALSE, exc |-> "",
          node |-> IF AnyIn(goodbye_keywords, lower(Get(state, "last_query", "")))
                   THEN "goodbye" ELSE "university_chat"]

goodbye_router(state) == [raised |-> FALSE, exc |-> "", node |-> END]

----------------------------------------------------------------------------
(* utils/executor.py: UniversityWorkflowExecutor.                          *)

supported_nodes == {"collect_name", "university_chat", "goodbye"}

\* the names bound in the modules node_functions and routes, which the
\* getattr fallback looks up
node_functions_names ==
    {"json", "rag_client", "MOCK_DATA", "collect_name", "university_chat",
     "goodbye", "get_user_context", "format_university_response"}
routes_names ==
    {"pp", "END", "json", "botspeak", "collect_name_router",
     "university_chat_router", "goodbye_router"}

\* the pair (func, router) of a name without its "_node" suffixes
lookup(clean_node_name) ==
    IF clean_node_name \in supported_nodes
    THEN [func |-> clean_node_name, router |-> clean_node_name \o "_router"]
    ELSE [func |-> IF clean_node_name \in node_functions_names
                   THEN clean_node_name ELSE None,
          router |-> IF (clean_node_name \o "_router") \in routes_names
                     THEN clean_node_name \o "_router" ELSE None]

\* the pair (func, router), each a name or None
get_func_and_router(node_name) == lookup(replace(node_name, "_node", ""))

\* func(llm, state, user_input): the three handlers run; any other object
\* found by getattr is not callable with these three arguments
call_func(func, state, user_input, ctx, outcome) ==
    IF func = "collect_name"
    THEN [raised |-> FALSE, exc |-> "", res |-> collect_name(state, user_input, ctx, outcome)]
    ELSE IF func = "university_chat"
    THEN [raised |-> FALSE, exc |-> "", res |-> university_chat(state, user_input, ctx, outcome)]
    ELSE IF func = "goodbye"
    THEN [raised |-> FALSE, exc |-> "", res |-> goodbye(state, user_input, ctx, outcome)]
    ELSE [raised |-> TRUE, exc |-> "TypeError",
          res |-> [state |-> state, ctx |-> ctx, sent |-> <<>>]]

\* router(state)
call_router(router, state) ==
    IF router = "collect_name_router" THEN collect_name_router(state)
    ELSE IF router = "university_chat_router" THEN university_chat_router(state)
    ELSE goodbye_router(state)

ExecutorApology == "I'm sorry, I encountered an error. Please try again."
UnknownNodeApology == "I'm sorry, I don't understand that request."

\* an except branch that would record the failure without the apology; C13
\* tells it apart
error_state_unanswered(state, node_name, exc) ==
    Put(state, "error", "Error in " \o node_name \o ": " \o exc)

\* the except branch of execute_node
error_state(state, node_name, exc) ==
    Update(state, [error |-> "Error in " \o node_name \o ": " \o exc,
                   next_question |-> ExecutorApology])

\* the else branch of execute_node: no function for the node
unknown_node_state(state, node_name) ==
    Update(state, [error |-> "Unknown node: " \o node_name,
                   next_question |-> UnknownNodeApology])

\* the router runs only after a handler that returned, and only on a
\* non-empty user input
router_runs(user_input, router) == Truthy(user_input) /\ router # None

\* state["current_node"] = next_node if next_node else node_name
write_current_node(state, next_node, node_name) ==
    Put(state, "current_node", IF Truthy(next_node) THEN next_node ELSE node_name)

\* the end of execute_node after the router r ran on the handler's result
after_router(r, res, node_name) ==
    [state |-> IF r.raised
               THEN write_current_node(error_state(res.state, node_name, r.exc),
                                       None, node_name)
               ELSE write_current_node(res.state, r.node, node_name),
     ctx |-> res.ctx, sent |-> res.sent]

\* the end of execute_node after the call h of the handler
after_func(h, router, node_name, user_input) ==
    IF h.raised
    THEN [state |-> write_current_node(error_state(h.res.state, node_name, h.exc),
                                       None, node_name),
          ctx |-> h.res.ctx, sent |-> h.res.sent]
    ELSE IF router_runs(user_input, router)
    THEN after_router(call_router(router, h.res.state), h.res, node_name)
    ELSE [state |-> write_current_node(h.res.state, None, node_name),
          ctx |-> h.res.ctx, sent |-> h.res.sent]

\* execute_node once func and router are looked up
execute_found(fr, node_name, state, user_input, ctx, outcome) ==
    IF fr.func # None
    THEN after_func(call_func(fr.func, state, user_input, ctx, outcome),
                    fr.router, node_name, user_input)
    ELSE [state |-> write_current_node(unknown_node_state(state, node_name),
                                       None, node_name),
          ctx |-> ctx, sent |-> <<>>]

execute_node(node_name, state, user_input, ctx, outcome) ==
    execute_found(get_func_and_router(node_name), node_name, state, user_input,
                  ctx, outcome)

----------------------------------------------------------------------------
(* session_store.py: the store is a dict from identifier to state.  A      *)
(* state handed to the store is stored by reference: what a caller later   *)
(* does to the object it holds, it does to the stored state.               *)

\* session_id = str(uuid4()); the identifier is an input of the operation
create_session(store, state, session_id) ==
    [store |-> Put(store, session_id, Put(state, "session_id", session_id)),
     ret |-> session_id]

\* session_store.get(session_id): the stored state, or None
get_session(store, session_id) ==
    IF session_id \in DOMAIN store
    THEN [isNone |-> FALSE, state |-> store[session_id]]
    ELSE [isNone |-> TRUE, state |-> EmptyDict]

\* session_store.copy()
get_all_sessions(store) == store

\* an update that would insert a missing identifier; C10 tells it apart
update_session_upsert(store, session_id, new_state) ==
    [store |-> Put(store, session_id, new_state), ret |-> TRUE]

update_session(store, session_id, new_state) ==
    IF session_id \in DOMAIN store
    THEN [store |-> Put(store, session_id, new_state), ret |-> TRUE]
    ELSE [store |-> store, ret |-> FALSE]

delete_session(store, session_id) ==
    IF session_id \in DOMAIN store
    THEN [store |-> Del(store, session_id), ret |-> TRUE]
    ELSE [store |-> store, ret |-> FALSE]

----------------------------------------------------------------------------
(* app.py: the HTTP handlers.  Every handler is a coroutine without an     *)
(* await, so it runs from its first line to its return without another     *)
(* request in between.                                                     *)

\* State(name=None, history=[], retry_count=0, current_node="collect_name",
\*       next_question=None, session_id=None, last_query=None,
\*       conversation_ended=False)
InitialState ==
    [name |-> None, history |-> <<>>, retry_count |-> 0,
     current_node |-> "collect_name", next_question |-> None,
     session_id |-> None, last_query |-> None, conversation_ended |-> FALSE]

\* an outcome for calls of execute_node that cannot reach the RAG client
NoRag == [kind |-> "status"]

\* lines 87-95: c is what create_session returned for the greeted state
session_created(c, ctx) ==
    [store |-> update_session(c.store, c.ret,
                              Put(c.store[c.ret], "session_id", Str(c.ret))).store,
     ctx |-> ctx, status |-> 200, session_id |-> Str(c.ret), sent |-> <<>>]

\* lines 84-89: e is what execute_node returned for the new state
session_greeted(store, e, uuid) ==
    session_created(create_session(store, e.state, uuid), e.ctx)

\* GET /session/; uuid is the value uuid4 returns
init_session(store, ctx, uuid) ==
    session_greeted(store,
                    execute_node("collect_name", InitialState, None, ctx, NoRag),
                    uuid)

\* not session
Falsy(session) == session.isNone \/ DOMAIN session.state = {}

\* chat_model["session_id"] is defined for a mapping; the ChatModel that
\* FastAPI builds from the request body is a pydantic BaseModel, which has
\* no __getitem__
subscriptable(chat_model) == chat_model.kind = "dict"

\* if state.get("conversation_ended", False)
conversation_has_ended(state) == Get(state, "conversation_ended", FALSE)

\* lines 134-141: the state e.state is written back
turn_done(store, session_id, e, sent) ==
    [store |-> update_session(store, session_id, e.state).store,
     ctx |-> e.ctx, status |-> 200, sent |-> sent \o e.sent]

\* if next_node and next_node != current_node
node_changed(next_node, current_node) ==
    Truthy(next_node) /\ next_node # current_node

\* lines 129-135: e1 is what the first execute_node returned
turn_continued(store, session_id, current_node, e1, outcome) ==
    IF node_changed(Get(e1.state, "current_node", None), current_node)
    THEN turn_done(store, session_id,
                   execute_node(Get(e1.state, "current_node", None), e1.state,
                                None, e1.ctx, outcome),
                   e1.sent)
    ELSE turn_done(store, session_id, e1, <<>>)

\* lines 126-135: the turn of a session that has not ended
chat_turn(store, ctx, session_id, state, current_node, user_input, outcome) ==
    turn_continued(store, session_id, current_node,
                   execute_node(current_node, state, user_input, ctx, outcome),
                   outcome)

\* lines 109-141: session is what get_session returned
chat_session(store, ctx, session_id, user_input, session, outcome) ==
    IF Falsy(session)
    THEN [store |-> store, ctx |-> ctx, status |-> 404, sent |-> <<>>]
    ELSE IF conversation_has_ended(session.state)
    THEN [store |-> store, ctx |-> ctx, status |-> 200, sent |-> <<>>]
    ELSE chat_turn(store, ctx, session_id, session.state,
                   Get(session.state, "current_node", "university_chat"),
                   user_input, outcome)

\* the body of chat(chat_model); an exception that is no HTTPException is
\* answered with status 500
chat(store, ctx, chat_model, outcome) ==
    IF ~subscriptable(chat_model)
       \/ "session_id" \notin DOMAIN chat_model.fields
       \/ "user_input" \notin DOMAIN chat_model.fields
    THEN [store |-> store, ctx |-> ctx, status |-> 500, sent |-> <<>>]
    ELSE chat_session(store, ctx, chat_model.fields["session_id"],
                      chat_model.fields["user_input"],
                      get_session(store, chat_model.fields["session_id"]),
                      outcome)

\* POST /chat/ with a JSON body: the body must validate against ChatModel
\* (message: str, session_id: Optional[str] = None), else FastAPI answers
\* 422 and the handler does not run
post_chat(store, ctx, body, outcome) ==
    IF "message" \notin DOMAIN body
    THEN [store |-> store, ctx |-> ctx, status |-> 422, sent |-> <<>>]
    ELSE chat(store, ctx,
              [kind |-> "ChatModel",
               fields |-> [message |-> body["message"],
                           session_id |-> Get(body, "session_id", None)]],
              outcome)

\* DELETE /session/{session_id}
end_session(store, ctx, session_id) ==
    IF Falsy(get_session(store, session_id))
    THEN [store |-> store, ctx |-> ctx, status |-> 404, sent |-> <<>>]
    ELSE [store |-> delete_session(store, session_id).store,
          ctx |-> clear_session_context(ctx, session_id), status |-> 200,
          sent |-> <<>>]

----------------------------------------------------------------------------
(* The inputs of the operations.                                           *)

\* an identifier that uuid4 never returns
NeverIssued == "s0"

\* the identifiers a request names: those of the sessions created so far,
\* deleted or not, and one that no session ever had
Named(ids) == ids \cup {NeverIssued}

\* user inputs of a chat turn
Inputs == {"", "a", " Al ", "fees?", "BYE"}

\* the messages of the end-to-end scenario
HttpMessages == {"Alice", "What are tuition fees?", "thank you, bye"}

\* the JSON bodies of a POST /chat/ for session sid: the text under
\* "message", as ChatModel declares it, or under "user_input", as test.py
\* sends it
Bodies(sid) ==
    {[session_id |-> sid, message |-> m] : m \in HttpMessages}
    \cup {[session_id |-> sid, user_input |-> "John Doe"]}

\* what the RAG endpoint can do with a request
RagOutcomes ==
    { [kind |-> "ok",
       data |-> [isdict |-> TRUE, dict |-> [response |-> "Tuition is 5000."],
                 repr |-> "{'response': 'Tuition is 5000.'}"]],
      [kind |-> "ok",
       data |-> [isdict |-> TRUE, dict |-> [response |-> "", answer |-> " "],
                 repr |-> "{'response': '', 'answer': ' '}"]],
      [kind |-> "status"],
      [kind |-> "timeout"] }

\* the states handed to the store by its direct callers
StoreStates == {EmptyDict, InitialState, Put(InitialState, "name", "Al")}

----------------------------------------------------------------------------
(* The state machine.  session_store is the dict of session_store.py,      *)
(* session_context the dict of the RAG client, issued the identifiers      *)
(* uuid4 has returned so far, last the most recent operation and its       *)
(* outcome.                                                                *)

NoOp ==
    [op |-> "none", sid |-> None, node |-> None, input |-> None, status |-> 0,
     sent |-> <<>>, rag |-> <<>>, pre_node |-> None, ret |-> None]

Init ==
    /\ session_store = EmptyDict
    /\ session_context = EmptyDict
    /\ issued = {}
    /\ last = NoOp

\* current_node of a stored session, None when there is none
NodeOf(store, sid) ==
    IF sid \in DOMAIN store THEN Get(store[sid], "current_node", None) ELSE None

HistoryLen(store, sid) ==
    IF sid \in DOMAIN store THEN Len(Get(store[sid], "history", <<>>)) ELSE 0

RECURSIVE Records(_, _)
\* the number of history records of the sessions sids
Records(store, sids) ==
    IF sids = {} THEN 0
    ELSE LET sid == CHOOSE x \in sids : TRUE
         IN  HistoryLen(store, sid) + Records(store, sids \ {sid})

\* the histories of the store are within the bound
Bounded(store) == Records(store, DOMAIN store) <= MaxRecords

\* the record of an operation op on session sid with the text input
Request(op, sid, node, input) ==
    [NoOp EXCEPT !.op = op, !.sid = sid, !.node = node, !.input = input,
                 !.pre_node = NodeOf(session_store, sid)]

\* the operation answers r: the store and the RAG context are as it left
\* them; the RAG outcome is recorded when a question was sent, and the
\* session_id of the response when it has one
Answered(r, request, outcome) ==
    /\ session_store' = r.store
    /\ session_context' = r.ctx
    /\ last' = [request EXCEPT !.status = r.status, !.sent = r.sent,
                               !.rag = IF r.sent = <<>> THEN <<>> ELSE <<outcome>>,
                               !.ret = IF "session_id" \in DOMAIN r
                                       THEN r.session_id ELSE None]

Respond(r, request, outcome) ==
    /\ Bounded(r.store)
    /\ Answered(r, request, outcome)

\* uuid4 is taken to return a value it has not returned before; which one
\* is of no consequence, and the identifiers are numbered as they are issued
uuid4 == "s" \o ToString(Cardinality(issued) + 1)

InitSession ==
    \E uuid \in {uuid4} :
        /\ Cardinality(issued) < MaxSessions
        /\ Respond(init_session(session_store, session_context, uuid),
                   Request("init_session", uuid, None, None), NoRag)
        /\ issued' = issued \cup {uuid}

\* a POST /chat/ request
ChatHTTP ==
    \E sid \in Named(issued), outcome \in RagOutcomes :
        \E body \in Bodies(sid) :
            /\ Respond(post_chat(session_store, session_context, body, outcome),
                       Request("chat_http", sid, None,
                               Get(body, "message", Get(body, "user_input", None))),
                       outcome)
            /\ UNCHANGED issued

\* chat called with a mapping that has the keys the handler reads
ChatCall ==
    \E sid \in Named(issued), user_input \in Inputs, outcome \in RagOutcomes :
        /\ Respond(chat(session_store, session_context,
                        [kind |-> "dict",
                         fields |-> [session_id |-> sid, user_input |-> user_input]],
                        outcome),
                   Request("chat", sid, None, user_input), outcome)
        /\ UNCHANGED issued

EndSession ==
    \E sid \in Named(issued) :
        /\ Respond(end_session(session_store, session_context, sid),
                   Request("end_session", sid, None, None), NoRag)
        /\ UNCHANGED issued

\* the state e.state that execute_node returned is the stored object
executed(store, sid, e) ==
    [store |-> Put(store, sid, e.state), ctx |-> e.ctx, status |-> 0, sent |-> e.sent]

\* execute_node called on the state of a stored session, as init_session
\* and chat call it; the state is the stored object, changed in place
ExecuteNodeCall ==
    \E sid \in DOMAIN session_store, node_name \in supported_nodes,
       user_input \in Inputs \cup {None}, outcome \in RagOutcomes :
        /\ Respond(executed(session_store, sid,
                            execute_node(node_name, session_store[sid], user_input,
                                         session_context, outcome)),
                   Request("execute_node", sid, node_name, user_input), outcome)
        /\ UNCHANGED issued

\* the requests of the HTTP API
Next == InitSession \/ ChatHTTP \/ ChatCall \/ EndSession

Spec == Init /\ [][Next]_vars

\* the runs that also call the executor directly have one session
InitSessionExec == issued = {} /\ InitSession

\* the requests, and direct calls of the executor
NextExec == InitSessionExec \/ ChatHTTP \/ ChatCall \/ EndSession \/ ExecuteNodeCall

SpecExec == Init /\ [][NextExec]_vars

----------------------------------------------------------------------------
(* Direct calls of the session store.                                      *)

Returned(r, request, ret) ==
    /\ session_store' = r.store
    /\ last' = [request EXCEPT !.ret = ret]
    /\ UNCHANGED session_context

StoreCreate ==
    \E uuid \in {uuid4}, state \in StoreStates :
        /\ Cardinality(issued) < MaxSessions
        /\ Returned(create_session(session_store, state, uuid),
                    Request("create_session", uuid, None, None), uuid)
        /\ issued' = issued \cup {uuid}

StoreGet ==
    \E sid \in Named(issued) :
        /\ Returned([store |-> session_store],
                    Request("get_session", sid, None, None),
                    IF get_session(session_store, sid).isNone THEN "None" ELSE "state")
        /\ UNCHANGED issued

StoreUpdate ==
    \E sid \in Named(issued), new_state \in StoreStates :
        /\ Returned(update_session(session_store, sid, new_state),
                    Request("update_session", sid, None, None),
                    IF update_session(session_store, sid, new_state).ret
                    THEN "True" ELSE "False")
        /\ UNCHANGED issued

StoreDelete ==
    \E sid \in Named(issued) :
        /\ Returned(delete_session(session_store, sid),
                    Request("delete_session", sid, None, None),
                    IF delete_session(session_store, sid).ret
                    THEN "True" ELSE "False")
        /\ UNCHANGED issued

NextStore == StoreCreate \/ StoreGet \/ StoreUpdate \/ StoreDelete

SpecStore == Init /\ [][NextStore]_vars

----------------------------------------------------------------------------
(* The claims.                                                             *)

\* the stored state of session sid
Session(sid) == session_store[sid]

\* the nine goodbye keywords the specification lists
ClaimedKeywords ==
    <<"bye", "goodbye", "see you", "thanks", "thank you", "exit", "quit", "end", "stop">>

\* session sid is stored, in node node_name, and has not ended
ActiveIn(sid, node_name) ==
    /\ sid \in DOMAIN session_store
    /\ NodeOf(session_store, sid) = node_name
    /\ ~conversation_has_ended(Session(sid))

\* C1: every session in the store has current_node in {collect_name,
\* university_chat, goodbye}, and so has every state execute_node returns
\* when it is called with one of these three node names, on any user input.
C1_CurrentNodeKnown ==
    /\ \A sid \in DOMAIN session_store :
           NodeOf(session_store, sid) \in supported_nodes
    /\ (last.op = "execute_node" /\ last.node \in supported_nodes)
           => NodeOf(session_store, last.sid) \in supported_nodes

\* C2: a chat turn on a session in collect_name whose input has a trimmed
\* length of at least 2 stores the trimmed input as the name and leaves the
\* session in university_chat.
C2_NameEntersChat ==
    (/\ last.op = "chat"
     /\ last.status = 200
     /\ last.pre_node = "collect_name"
     /\ Len(strip(last.input)) >= 2)
        => /\ last.sid \in DOMAIN session_store
           /\ Session(last.sid)["name"] = strip(last.input)
           /\ Session(last.sid)["current_node"] = "university_chat"

\* C3: a chat turn on a session in collect_name whose non-empty input has a
\* trimmed length below 2 keeps the session in collect_name, does not store
\* the input as the name, and increases retry_count by exactly 1.
C3_ShortNameRetries ==
    [][\A sid \in DOMAIN session_store :
          (/\ ActiveIn(sid, "collect_name")
           /\ last'.op = "chat" /\ last'.sid = sid /\ last'.status = 200
           /\ Truthy(last'.input)
           /\ Len(strip(last'.input)) < 2)
              => /\ sid \in DOMAIN session_store'
                 /\ session_store'[sid]["current_node"] = "collect_name"
                 /\ session_store'[sid]["name"] = Session(sid)["name"]
                 /\ session_store'[sid]["retry_count"] = Session(sid)["retry_count"] + 1
      ]_vars

\* C4: a chat turn on a session in university_chat whose input contains, in
\* any casing, one of the nine keywords ends with current_node = goodbye.
C4_KeywordEndsChat ==
    [][\A sid \in DOMAIN session_store :
          (/\ ActiveIn(sid, "university_chat")
           /\ last'.op = "chat" /\ last'.sid = sid /\ last'.status = 200
           /\ AnyIn(ClaimedKeywords, lower(last'.input)))
              => /\ sid \in DOMAIN session_store'
                 /\ session_store'[sid]["current_node"] = "goodbye"
      ]_vars

\* C5: through the HTTP layer, session-init leaves the session in
\* collect_name; a chat request with "Alice" is answered successfully and
\* leaves name = "Alice" and current_node = university_chat; a chat request
\* with a question is answered successfully and leaves university_chat; a
\* chat request with "thank you, bye" is answered successfully and leaves
\* current_node = goodbye and conversation_ended = true.
C5_EndToEnd ==
    [][/\ last'.op = "init_session"
            => NodeOf(session_store', last'.sid) = "collect_name"
       /\ \A sid \in DOMAIN session_store :
            (last'.op = "chat_http" /\ last'.sid = sid) =>
              /\ (ActiveIn(sid, "collect_name") /\ last'.input = "Alice")
                    => /\ last'.status = 200
                       /\ session_store'[sid]["name"] = "Alice"
                       /\ session_store'[sid]["current_node"] = "university_chat"
              /\ (ActiveIn(sid, "university_chat")
                  /\ last'.input = "What are tuition fees?")
                    => /\ last'.status = 200
                       /\ session_store'[sid]["current_node"] = "university_chat"
              /\ (ActiveIn(sid, "university_chat")
                  /\ last'.input = "thank you, bye")
                    => /\ last'.status = 200
                       /\ session_store'[sid]["current_node"] = "goodbye"
                       /\ session_store'[sid]["conversation_ended"]
      ]_vars

\* C6: conversation_ended of a session never goes back from true to false,
\* whatever request or executor call follows; so it changes from false to
\* true at most once.
C6_EndedStaysEnded ==
    [][\A sid \in DOMAIN session_store :
          (conversation_has_ended(Session(sid)) /\ sid \in DOMAIN session_store')
              => conversation_has_ended(session_store'[sid])
      ]_vars

\* the executor was called on a session that had ended, and the session is
\* still stored
C6_Witness ==
    /\ last.op = "execute_node"
    /\ last.pre_node \in {"goodbye", END}
    /\ last.sid \in DOMAIN session_store
    /\ conversation_has_ended(Session(last.sid))

\* C7: the goodbye handler sets conversation_ended = true, and a chat
\* request on a session whose current_node is goodbye leaves current_node,
\* name, history and conversation_ended as they were and sends no query to
\* the RAG client.
C7_GoodbyeTerminal ==
    [][/\ (last'.op = "execute_node" /\ last'.node = "goodbye")
            => /\ last'.sid \in DOMAIN session_store'
               /\ conversation_has_ended(session_store'[last'.sid])
       /\ \A sid \in DOMAIN session_store :
            (/\ NodeOf(session_store, sid) = "goodbye"
             /\ last'.op \in {"chat", "chat_http"}
             /\ last'.sid = sid)
                => /\ sid \in DOMAIN session_store'
                   /\ \A k \in {"current_node", "name", "history", "conversation_ended"} :
                          Get(session_store'[sid], k, None) = Get(Session(sid), k, None)
                   /\ last'.sent = <<>>
      ]_vars

\* a chat call with a text was answered on a session in goodbye
C7_Witness ==
    /\ last.op = "chat"
    /\ last.pre_node = "goodbye"
    /\ last.status = 200
    /\ Truthy(last.input)
    /\ last.sid \in DOMAIN session_store
    /\ Session(last.sid)["history"] # <<>>

\* the text the claim expects after the RAG client did r: its answer when it
\* returned a non-empty one, a fixed apology otherwise
ClaimedAnswers(r) ==
    IF r.raised THEN {RagTroubleApology, NoInfoApology}
    ELSE IF Truthy(r.value) /\ Truthy(strip(r.value)) THEN {r.value}
    ELSE {RagTroubleApology, NoInfoApology}

\* C8: a chat turn on a session in university_chat with an input without
\* goodbye keyword ends in university_chat, with next_question the RAG
\* answer, or a fixed apology when the RAG client raised or returned an
\* empty value, and with exactly one record appended to history, carrying
\* that same text.
C8_ChatTurnAnswers ==
    [][\A sid \in DOMAIN session_store :
          (/\ ActiveIn(sid, "university_chat")
           /\ last'.op = "chat" /\ last'.sid = sid /\ last'.status = 200
           /\ Truthy(last'.input)
           /\ ~AnyIn(ClaimedKeywords, lower(last'.input))
           /\ last'.rag # <<>>)
              => /\ sid \in DOMAIN session_store'
                 /\ session_store'[sid]["current_node"] = "university_chat"
                 /\ session_store'[sid]["next_question"] \in
                        ClaimedAnswers(query_university_info(
                            session_context, lower(strip(last'.input)),
                            sid, last'.rag[1]))
                 /\ Len(session_store'[sid]["history"])
                        = Len(Session(sid)["history"]) + 1
                 /\ SubSeq(session_store'[sid]["history"], 1,
                           Len(Session(sid)["history"]))
                        = Session(sid)["history"]
                 /\ session_store'[sid]["history"][Len(session_store'[sid]["history"])].assistant
                        = session_store'[sid]["next_question"]
      ]_vars

\* the not-found outcome of a store operation
NotFound(op) == IF op = "get_session" THEN "None" ELSE "False"

\* C10: get_session, update_session and delete_session on an identifier
\* that is not in the store return the not-found outcome (None, False,
\* False) and leave the store as it was; on an identifier that is in the
\* store none of them returns the not-found outcome, whatever the stored
\* state is.
C10_NotFound ==
    [][\A sid \in Named(issued) :
          (/\ last'.op \in {"get_session", "update_session", "delete_session"}
           /\ last'.sid = sid)
              => IF sid \in DOMAIN session_store
                 THEN last'.ret # NotFound(last'.op)
                 ELSE /\ last'.ret = NotFound(last'.op)
                      /\ session_store' = session_store
      ]_vars

\* update_session on a deleted identifier reported not-found, while the
\* empty state is stored under another identifier
C10_Witness ==
    /\ last.op = "update_session"
    /\ last.sid \in issued \ DOMAIN session_store
    /\ last.ret = "False"
    /\ \E other \in DOMAIN session_store : session_store[other] = EmptyDict

\* C11: a chat request (with a body the request model accepts) or an
\* end-session request that names a session identifier absent from the
\* store is answered with 404, and leaves the
\* store and the RAG client's per-session context unchanged.
C11_AbsentSessionNotFound ==
    [][(/\ \/ last'.op = "chat_http" /\ last'.input \in HttpMessages
           \/ last'.op = "end_session"
        /\ last'.sid \notin DOMAIN session_store)
           => /\ last'.status = 404
              /\ session_store' = session_store
              /\ session_context' = session_context
      ]_vars

----------------------------------------------------------------------------
(* Direct calls of the executor with node names of every kind.             *)

\* node names: the three registered ones, one with the "_node" suffix the
\* executor strips, names the getattr fallback finds in node_functions (an
\* object that is not callable, a helper with another signature), and a
\* name bound nowhere
NodeNames ==
    supported_nodes \cup {"collect_name_node", "rag_client", "get_user_context", "billing"}

NodeInputs == {None, "a", "BYE"}

ExecuteNodeNamed ==
    \E sid \in DOMAIN session_store, node_name \in NodeNames,
       user_input \in NodeInputs, outcome \in RagOutcomes :
        /\ Respond(executed(session_store, sid,
                            execute_node(node_name, session_store[sid], user_input,
                                         session_context, outcome)),
                   Request("execute_node", sid, node_name, user_input), outcome)
        /\ UNCHANGED issued

NextNodes == InitSessionExec \/ ExecuteNodeNamed

SpecNodes == Init /\ [][NextNodes]_vars

\* C12: for every node name other than collect_name, university_chat and
\* goodbye, execute_node returns a state with error set to the unknown-node
\* message and next_question set to the generic apology for an unknown
\* node, and calls no handler: name, history and conversation_ended are as
\* they were and no query is sent.
C12_ClosedRegistry ==
    [][\A sid \in DOMAIN session_store :
          (/\ last'.op = "execute_node" /\ last'.sid = sid
           /\ last'.node \notin supported_nodes)
              => /\ Get(session_store'[sid], "error", None)
                        = "Unknown node: " \o last'.node
                 /\ session_store'[sid]["next_question"] = UnknownNodeApology
                 /\ \A k \in {"name", "history", "conversation_ended"} :
                        Get(session_store'[sid], k, None) = Get(Session(sid), k, None)
                 /\ last'.sent = <<>>
      ]_vars

\* the call of the handler that execute_node makes
handler_call(node_name, state, user_input, ctx, outcome) ==
    call_func(get_func_and_router(node_name).func, state, user_input, ctx, outcome)

\* the call of the router that execute_node makes after the handler call h
router_call(node_name, h) ==
    call_router(get_func_and_router(node_name).router, h.res.state)

\* what the handler, or the router called after it, raised in
\* execute_node(node_name, state, user_input): a sequence of at most one
\* exception text
raised_in(node_name, state, user_input, h) ==
    IF get_func_and_router(node_name).func = None THEN <<>>
    ELSE IF h.raised THEN <<h.exc>>
    ELSE IF /\ router_runs(user_input, get_func_and_router(node_name).router)
            /\ router_call(node_name, h).raised
    THEN <<router_call(node_name, h).exc>>
    ELSE <<>>

\* C13: whenever the node handler, or the router called after it, raises,
\* execute_node returns a state whose error field records the failure and
\* whose next_question is the generic apology.
C13_FailureRecorded ==
    [][\A sid \in DOMAIN session_store, outcome \in RagOutcomes,
          exc \in {"TypeError", "'NoneType' object has no attribute 'lower'"} :
          (/\ last'.op = "execute_node" /\ last'.sid = sid
           /\ last'.rag \in {<<>>, <<outcome>>}
           /\ raised_in(last'.node, Session(sid), last'.input,
                        handler_call(last'.node, Session(sid), last'.input,
                                     session_context, outcome)) = <<exc>>)
              => /\ sid \in DOMAIN session_store'
                 /\ Get(session_store'[sid], "error", None)
                        = "Error in " \o last'.node \o ": " \o exc
                 /\ session_store'[sid]["next_question"] = ExecutorApology
      ]_vars

\* the router raised after the university_chat handler had answered, and
\* the returned state records it
C13_Witness ==
    /\ last.op = "execute_node"
    /\ last.node = "university_chat"
    /\ last.sent # <<>>
    /\ last.sid \in DOMAIN session_store
    /\ Get(Session(last.sid), "error", None)
           = "Error in university_chat: 'NoneType' object has no attribute 'lower'"
    /\ Session(last.sid)["history"] # <<>>

----------------------------------------------------------------------------
(* Direct calls of the RAG client.                                         *)

\* the total number of exchanges the RAG client is made to remember
MaxExchanges == 2

Questions == {"fees?", "hello"}

\* every way a request to the endpoint can end: the outcomes above, a
\* refused connection, and a 200 response whose body is no JSON
AllRagOutcomes == RagOutcomes \cup {[kind |-> "connect"], [kind |-> "error"]}

\* the messages of the except clauses for a failed connection and a timeout
ConnectMessage ==
    "I'm sorry, I cannot connect to the university information system right now. Please check if the system is running and try again."
TimeoutMessage ==
    "The university information system is taking too long to respond. Please try asking a simpler question or try again later."

RECURSIVE Exchanges(_, _)
\* the number of exchanges remembered for the sessions sids
Exchanges(ctx, sids) ==
    IF sids = {} THEN 0
    ELSE LET sid == CHOOSE x \in sids : TRUE
         IN  Len(ctx[sid]) + Exchanges(ctx, sids \ {sid})

\* the call returned r, or raised
Queried(r, request) ==
    /\ Exchanges(r.ctx, DOMAIN r.ctx) <= MaxExchanges
    /\ session_context' = r.ctx
    /\ last' = [request EXCEPT !.ret = IF r.raised THEN "raised" ELSE r.value]

RagQuery ==
    \E question \in Questions, session_id \in {None, "s1", "s2"},
       outcome \in AllRagOutcomes :
        /\ Queried(query_university_info(session_context, question,
                                         session_id, outcome),
                   [NoOp EXCEPT !.op = "query_university_info", !.sid = session_id,
                                !.input = question, !.rag = <<outcome>>])
        /\ UNCHANGED <<session_store, issued>>

RagClear ==
    \E session_id \in {"s1", "s2"} :
        /\ session_context' = clear_session_context(session_context, session_id)
        /\ last' = [NoOp EXCEPT !.op = "clear_session_context", !.sid = session_id]
        /\ UNCHANGED <<session_store, issued>>

NextRag == RagQuery \/ RagClear

SpecRag == Init /\ [][NextRag]_vars

\* C14: query_university_info never raises: on a connection failure it
\* returns the connectivity message, on a timeout the timeout message, on
\* another status than 200 or any other failure the fallback string; in
\* each of these cases the per-session context is left unchanged.
C14_QueryNeverRaises ==
    [][last'.op = "query_university_info" =>
          /\ last'.ret # "raised"
          /\ last'.rag[1].kind = "connect" => last'.ret = ConnectMessage
          /\ last'.rag[1].kind = "timeout" => last'.ret = TimeoutMessage
          /\ last'.rag[1].kind \in {"status", "error"}
                => last'.ret = _get_fallback_response(last'.input)
          /\ last'.rag[1].kind # "ok" => session_context' = session_context
      ]_vars

----------------------------------------------------------------------------
(* Turns of one session, with room for a history of several records.       *)

\* no turn is taken that leaves more history records than this
MaxTurnRecords == 2

TurnInputs == {"", "a", "BYE"}

\* the answers of the RAG endpoint in these turns: an answer, and a timeout
TurnOutcomes ==
    { [kind |-> "ok",
       data |-> [isdict |-> TRUE, dict |-> [response |-> "Tuition is 5000."],
                 repr |-> "{'response': 'Tuition is 5000.'}"]],
      [kind |-> "timeout"] }

\* the operation answers r, within the bound of these turns
RespondTurn(r, request, outcome) ==
    /\ Records(r.store, DOMAIN r.store) <= MaxTurnRecords
    /\ Answered(r, request, outcome)

ChatTurn ==
    \E sid \in issued, user_input \in TurnInputs, outcome \in TurnOutcomes :
        /\ RespondTurn(chat(session_store, session_context,
                            [kind |-> "dict",
                             fields |-> [session_id |-> sid, user_input |-> user_input]],
                            outcome),
                       Request("chat", sid, None, user_input), outcome)
        /\ UNCHANGED issued

ExecuteNodeTurn ==
    \E sid \in DOMAIN session_store, node_name \in supported_nodes,
       user_input \in NodeInputs, outcome \in TurnOutcomes :
        /\ RespondTurn(executed(session_store, sid,
                                execute_node(node_name, session_store[sid], user_input,
                                             session_context, outcome)),
                       Request("execute_node", sid, node_name, user_input), outcome)
        /\ UNCHANGED issued

EndSessionTurn ==
    \E sid \in issued :
        /\ RespondTurn(end_session(session_store, session_context, sid),
                       Request("end_session", sid, None, None), NoRag)
        /\ UNCHANGED issued

NextTurns == InitSessionExec \/ ChatTurn \/ ExecuteNodeTurn \/ EndSessionTurn

SpecTurns == Init /\ [][NextTurns]_vars

\* C15: retry_count of every session is a non-negative integer in every
\* state, and it is 0 after every step in which the session's current_node
\* changes to a different node.
C15_RetryCount ==
    [][\A sid \in DOMAIN session_store' :
          /\ session_store'[sid]["retry_count"] \in Nat
          /\ (/\ sid \in DOMAIN session_store
              /\ NodeOf(session_store', sid) # NodeOf(session_store, sid))
                 => session_store'[sid]["retry_count"] = 0
      ]_vars

\* a session that has taken a turn in collect_name has moved to another node
C15_Witness ==
    /\ last.sid \in DOMAIN session_store
    /\ last.pre_node = "collect_name"
    /\ NodeOf(session_store, last.sid) \in {"university_chat", "goodbye", END}
    /\ Session(last.sid)["name"] # None

\* xs is a prefix of ys
IsPrefix(xs, ys) == Len(xs) <= Len(ys) /\ SubSeq(ys, 1, Len(xs)) = xs

\* C16: history is append-only: across every request and every executor
\* call, the history before it is a prefix of the history after it, turns
\* that end in the executor's error path included.
C16_HistoryAppendOnly ==
    [][\A sid \in DOMAIN session_store \cap DOMAIN session_store' :
          IsPrefix(Session(sid)["history"], session_store'[sid]["history"])
      ]_vars

\* a chat turn that ended in the executor's error path appended a record to
\* a history that was not empty
C16_Witness ==
    /\ last.op = "chat"
    /\ last.sent # <<>>
    /\ last.sid \in DOMAIN session_store
    /\ Get(Session(last.sid), "error", None) # None
    /\ Session(last.sid)["next_question"] = ExecutorApology
    /\ Len(Session(last.sid)["history"]) >= 2

\* C17: a session-init request adds exactly one new session to the store
\* and returns its identifier; the stored state has that session_id,
\* current_node = collect_name, no name, an empty history, retry_count = 0,
\* conversation_ended = false and the name prompt as next_question; no
\* other session is changed.
C17_SessionInit ==
    [][last'.op = "init_session" =>
          /\ last'.status = 200
          /\ last'.ret \notin DOMAIN session_store
          /\ DOMAIN session_store' = DOMAIN session_store \cup {last'.ret}
          /\ \A other \in DOMAIN session_store :
                 session_store'[other] = session_store[other]
          /\ session_store'[last'.ret]["session_id"] = last'.ret
          /\ session_store'[last'.ret]["current_node"] = "collect_name"
          /\ session_store'[last'.ret]["name"] = None
          /\ session_store'[last'.ret]["history"] = <<>>
          /\ session_store'[last'.ret]["retry_count"] = 0
          /\ session_store'[last'.ret]["conversation_ended"] = FALSE
          /\ session_store'[last'.ret]["next_question"] = NamePrompt
      ]_vars

\* a session was initialised while another one, which has taken a turn, was
\* in the store
C17_Witness ==
    /\ last.op = "init_session"
    /\ last.ret \in DOMAIN session_store
    /\ \E other \in DOMAIN session_store \ {last.ret} :
           session_store[other]["history"] # <<>>

----------------------------------------------------------------------------
(* The event loop.  The handlers of app.py are coroutines (async def) that  *)
(* the server runs on one event loop; chat calls execute_node, and through  *)
(* it requests.post, as plain calls without an await.  While requests.post  *)
(* waits for the RAG endpoint the coroutine does not yield, and the loop     *)
(* runs no other handler.  A chat request that queries the endpoint is      *)
(* modelled in two steps: the request is sent (last.op = "chat_waiting"),   *)
(* and the endpoint answers or the request times out.                       *)

LoopInputs == {"a", "fees?", "BYE"}

\* the chat request in which the loop is waiting for the RAG endpoint
Waiting == last.op = "chat_waiting"

\* a loop that could start a handler while another one waits; C23 tells it
\* apart
LoopYields == TRUE

\* the event loop can start a handler
LoopFree == ~Waiting

\* chat(session_id, user_input) sends a question to the RAG endpoint
sends_query(store, ctx, sid, user_input) ==
    chat(store, ctx,
         [kind |-> "dict", fields |-> [session_id |-> sid, user_input |-> user_input]],
         NoRag).sent # <<>>

LoopInitSession == LoopFree /\ InitSession

\* the state of a stored session is moved to a node by the executor
LoopExecuteNode ==
    /\ LoopFree
    /\ \E sid \in DOMAIN session_store, node_name \in supported_nodes :
           /\ Respond(executed(session_store, sid,
                               execute_node(node_name, session_store[sid], None,
                                            session_context, NoRag)),
                      Request("execute_node", sid, node_name, None), NoRag)
           /\ UNCHANGED issued

\* a chat request that sends no question runs from its first line to its
\* return
LoopChat ==
    /\ LoopFree
    /\ \E sid \in Named(issued), user_input \in LoopInputs :
           /\ ~sends_query(session_store, session_context, sid, user_input)
           /\ Respond(chat(session_store, session_context,
                           [kind |-> "dict",
                            fields |-> [session_id |-> sid, user_input |-> user_input]],
                           NoRag),
                      Request("chat", sid, None, user_input), NoRag)
           /\ UNCHANGED issued

\* a chat request reaches requests.post: nothing is written before it
LoopChatSend ==
    /\ LoopFree
    /\ \E sid \in DOMAIN session_store, user_input \in LoopInputs :
           /\ sends_query(session_store, session_context, sid, user_input)
           /\ last' = Request("chat_waiting", sid, None, user_input)
           /\ UNCHANGED <<session_store, session_context, issued>>

\* requests.post returns or raises, and the chat request runs to its return
LoopChatReceive ==
    /\ Waiting
    /\ \E outcome \in RagOutcomes :
           /\ Respond(chat(session_store, session_context,
                           [kind |-> "dict",
                            fields |-> [session_id |-> last.sid,
                                        user_input |-> last.input]],
                           outcome),
                      Request("chat", last.sid, None, last.input), outcome)
           /\ UNCHANGED issued

LoopEndSession == LoopFree /\ EndSession

\* the steps that serve a request for another session than the waiting one
ServesAnother ==
    \/ LoopInitSession
    \/ LoopEndSession /\ last'.sid # last.sid
    \/ LoopChat /\ last'.sid # last.sid
    \/ LoopChatSend /\ last'.sid # last.sid

NextLoop ==
    \/ LoopInitSession
    \/ LoopExecuteNode
    \/ LoopChat
    \/ LoopChatSend
    \/ LoopChatReceive
    \/ LoopEndSession

SpecLoop == Init /\ [][NextLoop]_vars

\* C18: while the RAG call of one session's chat request is outstanding, a
\* chat, session-init or end-session request for a different session can
\* run.
C18_OthersNotBlocked == Waiting => ENABLED ServesAnother

----------------------------------------------------------------------------
(* routes/nvidiaa2f.py: the endpoints that turn a text into speech and      *)
(* animation.  client is the ElevenLabs client, None when it is not         *)
(* configured; stream is what client.text_to_speech.stream does: it yields  *)
(* audio ("audio"), yields nothing ("empty") or raises the error            *)
(* stream.error ("raises").                                                 *)

A2F_AVAILABLE == TRUE

\* the response of an endpoint: a status and, for an error, its detail
http_error(status_code, detail) == [status |-> status_code, detail |-> detail]
http_ok == [status |-> 200, detail |-> ""]

\* POST /tts-only
text_to_speech_only(client, stream) ==
    IF client = None
    THEN http_error(503, "TTS not available - ElevenLabs not configured. Check ELEVENLABS_API_KEY.")
    ELSE IF stream.kind = "raises"
    THEN http_error(500, "TTS failed: " \o stream.error)
    ELSE IF stream.kind = "empty"
    THEN http_error(500, "TTS failed: Generated audio file is empty or missing")
    ELSE http_ok

\* POST /web-animation
generate_web_animation(client, stream) ==
    IF ~A2F_AVAILABLE THEN http_error(503, "A2F not available")
    ELSE IF client = None
    THEN http_error(503, "TTS not available for A2F - ElevenLabs not configured")
    ELSE IF stream.kind = "raises"
    THEN http_error(500, "Web animation failed: " \o stream.error)
    ELSE http_ok

\* POST /text2animation; audio that pydub cannot read falls back to an
\* estimated duration
process_text_to_animation(client, stream) ==
    IF ~A2F_AVAILABLE THEN http_error(503, "A2F not available")
    ELSE IF client = None
    THEN http_error(503, "TTS not available for A2F - ElevenLabs not configured")
    ELSE IF stream.kind = "raises"
    THEN http_error(500, "A2F failed: " \o stream.error)
    ELSE http_ok

A2FEndpoints == {"tts-only", "web-animation", "text2animation"}

a2f_endpoint(endpoint, client, stream) ==
    IF endpoint = "tts-only" THEN text_to_speech_only(client, stream)
    ELSE IF endpoint = "web-animation" THEN generate_web_animation(client, stream)
    ELSE process_text_to_animation(client, stream)

Clients == {None, "ElevenLabs"}

Streams ==
    { [kind |-> "audio"], [kind |-> "empty"],
      [kind |-> "raises", error |-> "quota_exceeded"],
      [kind |-> "raises", error |-> "Connection refused"] }

Texts == {"Hello", "Welcome to the university", "", "Fees are due", "Goodbye"}

\* one request to an endpoint; last records the endpoint, the client, the
\* provider's behaviour, the status and the detail of the response
A2FRequest ==
    \E endpoint \in A2FEndpoints, client \in Clients, stream \in Streams,
       text \in Texts :
        /\ last' = [NoOp EXCEPT !.op = endpoint, !.node = client,
                                !.input = text, !.rag = <<stream>>,
                                !.status = a2f_endpoint(endpoint, client, stream).status,
                                !.ret = a2f_endpoint(endpoint, client, stream).detail]
        /\ UNCHANGED <<session_store, session_context, issued>>

NextA2F == A2FRequest

SpecA2F == Init /\ [][NextA2F]_vars

\* C19: on tts-only, web-animation and text2animation every failure of the
\* provider, whether it is not configured or its call fails, is answered
\* with HTTP 503 and a detail string.
C19_ProviderFailure503 ==
    (/\ last.op \in A2FEndpoints
     /\ \/ last.node = None
        \/ last.rag[1].kind = "raises")
        => /\ last.status = 503
           /\ last.ret # ""

\* C20: after every chat turn with a non-empty user input u on a session
\* that has not ended, the session's last_query is u.
C20_LastQueryIsInput ==
    [][\A sid \in DOMAIN session_store :
          (/\ ~conversation_has_ended(Session(sid))
           /\ last'.op = "chat" /\ last'.sid = sid /\ last'.status = 200
           /\ Truthy(last'.input))
              => /\ sid \in DOMAIN session_store'
                 /\ session_store'[sid]["last_query"] = last'.input
      ]_vars

\* C21: the state stored under an identifier changes only by
\* create_session, update_session or delete_session: what a node handler
\* does to the state it received from get_session is not in the store as
\* long as update_session has not written it back.
C21_StoreOwnsState ==
    [][last'.op = "execute_node" => session_store' = session_store]_vars

\* C22: for a registered node name n, execute_node(n, state, input) returns
\* a state whose current_node is the value the router of n computed on the
\* handler's result when input is non-empty, and n itself when input is
\* empty or absent.
C22_ExecutorWritesNode ==
    [][\A sid \in DOMAIN session_store, outcome \in TurnOutcomes :
          (/\ last'.op = "execute_node" /\ last'.sid = sid
           /\ last'.node \in supported_nodes
           /\ last'.rag \in {<<>>, <<outcome>>})
              => IF Truthy(last'.input)
                 THEN /\ ~router_call(last'.node,
                                      handler_call(last'.node, Session(sid), last'.input,
                                                   session_context, outcome)).raised
                      /\ NodeOf(session_store', sid)
                            = router_call(last'.node,
                                          handler_call(last'.node, Session(sid),
                                                       last'.input, session_context,
                                                       outcome)).node
                 ELSE NodeOf(session_store', sid) = last'.node
      ]_vars

----------------------------------------------------------------------------
(* The event loop with one session, and room for the records of two turns  *)
(* that queried the RAG endpoint.                                          *)

LoopInitOne == issued = {} /\ LoopInitSession

\* requests.post returns or raises, and the chat request runs to its
\* return; the history may hold the records of several such turns
LoopChatReceiveTurn ==
    /\ Waiting
    /\ \E outcome \in TurnOutcomes :
           /\ RespondTurn(chat(session_store, session_context,
                               [kind |-> "dict",
                                fields |-> [session_id |-> last.sid,
                                            user_input |-> last.input]],
                               outcome),
                          Request("chat", last.sid, None, last.input), outcome)
           /\ UNCHANGED issued

NextLoopOne ==
    \/ LoopInitOne
    \/ LoopExecuteNode
    \/ LoopChat
    \/ LoopChatSend
    \/ LoopChatReceiveTurn
    \/ LoopEndSession

SpecLoopOne == Init /\ [][NextLoopOne]_vars

\* C23: a chat request runs to completion without yielding: while it waits
\* for the RAG endpoint the store is as the request found it, the next step
\* on the store is the rest of this request, and it leaves the store as
\* chat leaves it when run at once; so chat requests for one session take
\* effect one after the other, each on the result of the one before.
C23_ChatRunsToCompletion ==
    [][/\ (~Waiting /\ last'.op = "chat_waiting")
            => /\ session_store' = session_store
               /\ session_context' = session_context
       /\ Waiting
            => /\ last'.op = "chat"
               /\ last'.sid = last.sid
               /\ last'.input = last.input
               /\ \E outcome \in TurnOutcomes :
                      session_store'
                          = chat(session_store, session_context,
                                 [kind |-> "dict",
                                  fields |-> [session_id |-> last.sid,
                                              user_input |-> last.input]],
                                 outcome).store
      ]_vars

\* two chat requests of one session have queried the RAG endpoint, and the
\* records of both turns are in its history
C23_Witness ==
    /\ last.op = "chat"
    /\ last.sent # <<>>
    /\ last.sid \in DOMAIN session_store
    /\ Len(Session(last.sid)["history"]) = 2
    /\ \A i \in 1..2 : "user" \in DOMAIN Session(last.sid)["history"][i]

----------------------------------------------------------------------------
(* routes/nvidiaa2f.py: generate_realistic_face_animation.  Durations are  *)
(* counted in thirtieths of a second (one frame), control values in        *)
(* millionths, easing in thousandths.                                      *)

MaxFrames == 3

\* text.split(): the words between runs of whitespace
RECURSIVE split(_)
split(text) ==
    IF lstrip(text) = "" THEN <<>>
    ELSE IF \E i \in 1..Len(lstrip(text)) : IsSpace(SubSeq(lstrip(text), i, i))
         THEN <<SubSeq(lstrip(text), 1,
                       (CHOOSE i \in 1..Len(lstrip(text)) :
                           /\ IsSpace(SubSeq(lstrip(text), i, i))
                           /\ \A j \in 1..(i - 1) :
                                  ~IsSpace(SubSeq(lstrip(text), j, j))) - 1)>>
              \o split(SubSeq(lstrip(text),
                              (CHOOSE i \in 1..Len(lstrip(text)) :
                                  /\ IsSpace(SubSeq(lstrip(text), i, i))
                                  /\ \A j \in 1..(i - 1) :
                                         ~IsSpace(SubSeq(lstrip(text), j, j))),
                              Len(lstrip(text))))
         ELSE <<lstrip(text)>>

\* phoneme_map.get(first_char, phoneme_map['silence']), in thousandths
phoneme_map(first_char) ==
    CASE first_char = "a" -> [mouth_open |-> 800, jaw_open |-> 600, lip_pucker |-> 0]
      [] first_char = "e" -> [mouth_open |-> 500, jaw_open |-> 300, lip_pucker |-> 0]
      [] first_char = "i" -> [mouth_open |-> 200, jaw_open |-> 100, lip_pucker |-> 0]
      [] first_char = "o" -> [mouth_open |-> 600, jaw_open |-> 400, lip_pucker |-> 700]
      [] first_char = "u" -> [mouth_open |-> 300, jaw_open |-> 200, lip_pucker |-> 900]
      [] first_char \in {"m", "p"} -> [mouth_open |-> 0, jaw_open |-> 0, lip_pucker |-> 0]
      [] first_char \in {"b", "f", "v", "s", "z"}
                          -> [mouth_open |-> 100, jaw_open |-> 100, lip_pucker |-> 0]
      [] first_char = "t" -> [mouth_open |-> 200, jaw_open |-> 100, lip_pucker |-> 0]
      [] first_char = "d" -> [mouth_open |-> 300, jaw_open |-> 200, lip_pucker |-> 0]
      [] first_char \in {"k", "g"}
                          -> [mouth_open |-> 400, jaw_open |-> 300, lip_pucker |-> 0]
      [] first_char = "l" -> [mouth_open |-> 400, jaw_open |-> 200, lip_pucker |-> 0]
      [] first_char = "r" -> [mouth_open |-> 300, jaw_open |-> 200, lip_pucker |-> 400]
      [] first_char = "w" -> [mouth_open |-> 200, jaw_open |-> 100, lip_pucker |-> 800]
      [] first_char = "h" -> [mouth_open |-> 600, jaw_open |-> 400, lip_pucker |-> 0]
      [] OTHER -> [mouth_open |-> 0, jaw_open |-> 0, lip_pucker |-> 0]

\* the letters of the first n words: word_durations are len(word) * 0.1,
\* scaled to the audio duration, and word_start_times their running sum
RECURSIVE letters(_, _)
letters(words, n) ==
    IF n = 0 THEN 0 ELSE letters(words, n - 1) + Len(words[n])

\* the index of the last word whose start time the frame has reached; 0
\* stands for the code's -1
word_index(words, duration, frame) ==
    IF words = <<>> THEN 0
    ELSE CHOOSE i \in 1..Len(words) :
           /\ frame * letters(words, Len(words)) >= duration * letters(words, i - 1)
           /\ \A j \in (i + 1)..Len(words) :
                  frame * letters(words, Len(words)) < duration * letters(words, j - 1)

\* 0.5 * (1 - cos(pi * min(progress, 1.0) * 2)) in thousandths, at a
\* progress of num / den that is a multiple of one twelfth
easing(num, den) ==
    <<0, 67, 250, 500, 750, 933, 1000, 933, 750, 500, 250, 67, 0>>
        [(IF num >= den THEN 12 ELSE (12 * num) \div den) + 1]

\* easing of a frame inside word i: progress is time_into_word over
\* max(word_duration, 0.01)
easing_in(words, duration, frame, i) ==
    IF i = 0 THEN 0
    ELSE IF duration * Len(words[i]) * 100 >= 30 * letters(words, Len(words))
         THEN easing(frame * letters(words, Len(words))
                         - duration * letters(words, i - 1),
                     duration * Len(words[i]))
         ELSE easing((frame * letters(words, Len(words))
                         - duration * letters(words, i - 1)) * 100,
                     30 * letters(words, Len(words)))

\* random.uniform(a, b) at the quantile u (thousandths) the generator
\* happens to give
uniform(a, b, u) == a + ((b - a) * u) \div 1000

\* max(0, min(1, x)) in millionths
clamped(x) == IF x < 0 THEN 0 ELSE IF x > 1000000 THEN 1000000 ELSE x

\* one frame; u is what the random generator gives in this frame
frame_data(words, duration, frame, i, u) ==
    [frame |-> frame,
     time |-> frame,
     face_controls |->
        [mouth_open |-> clamped(phoneme_map(IF i = 0 THEN "silence"
                                             ELSE lower(SubSeq(words[i], 1, 1))).mouth_open
                                    * easing_in(words, duration, frame, i)
                                + uniform(-20000, 20000, u)),
         jaw_open |-> clamped(phoneme_map(IF i = 0 THEN "silence"
                                           ELSE lower(SubSeq(words[i], 1, 1))).jaw_open
                                  * easing_in(words, duration, frame, i)
                              + uniform(-20000, 20000, u)),
         lip_pucker |-> clamped(phoneme_map(IF i = 0 THEN "silence"
                                             ELSE lower(SubSeq(words[i], 1, 1))).lip_pucker
                                    * easing_in(words, duration, frame, i)
                                + uniform(-20000, 20000, u)),
         mouthSmile |-> (uniform(0, 150000, u)
                            * easing_in(words, duration, frame, i)) \div 1000,
         eyeBlink |-> IF frame % 100 < 4 THEN 1000000 ELSE 0,
         browUp |-> (uniform(0, 400000, u)
                        * easing_in(words, duration, frame, i)) \div 1000,
         headNod |-> <<0, 1499, 2995, 4483, 5960, 7422>>[frame + 1],
         headTurn |-> <<0, 800, 1598, 2394, 3186, 3973>>[frame + 1]],
     word |-> IF i = 0 THEN "" ELSE words[i],
     phoneme |-> IF i = 0 THEN "silence" ELSE lower(SubSeq(words[i], 1, 1))]

\* the frames of one call; draws[frame + 1] is what the random generator
\* gives in that frame
generate_realistic_face_animation(text, audio_duration, draws) ==
    [k \in 1..audio_duration |->
        frame_data(split(text), audio_duration, k - 1,
                   word_index(split(text), audio_duration, k - 1), draws[k])]

FaceTexts == {"", "a", "hi mo", " Oh ", "see you"}

\* one call; last records the text, the duration and the frames returned
FaceAnimation ==
    \E text \in FaceTexts, audio_duration \in 0..MaxFrames :
        \E draws \in [1..audio_duration -> {0, 500, 1000}] :
            /\ last' = [NoOp EXCEPT
                            !.op = "generate_realistic_face_animation",
                            !.input = text,
                            !.sent = <<audio_duration>>,
                            !.rag = generate_realistic_face_animation(
                                        text, audio_duration, draws)]
            /\ UNCHANGED <<session_store, session_context, issued>>

SpecFace == Init /\ [][FaceAnimation]_vars

\* C24: generate_realistic_face_animation is deterministic: a call with the
\* text and the audio duration of the call before it returns the same
\* frames, every face control of every frame equal.
C24_AnimationDeterministic ==
    [][(/\ last.op = "generate_realistic_face_animation"
        /\ last'.op = "generate_realistic_face_animation"
        /\ last'.input = last.input
        /\ last'.sent = last.sent)
           => last'.rag = last.rag]_vars

\* C25: handler and router agree: for collect_name and university_chat, on
\* every state and every non-empty input, the router called on the
\* handler's result does not raise and returns the current_node the handler
\* wrote into that result.
C25_HandlerRouterAgree ==
    [][\A sid \in DOMAIN session_store, outcome \in TurnOutcomes :
          (/\ last'.op = "execute_node" /\ last'.sid = sid
           /\ last'.node \in {"collect_name", "university_chat"}
           /\ Truthy(last'.input)
           /\ last'.rag \in {<<>>, <<outcome>>})
              => /\ ~router_call(last'.node,
                                 handler_call(last'.node, Session(sid), last'.input,
                                              session_context, outcome)).raised
                 /\ router_call(last'.node,
                                handler_call(last'.node, Session(sid), last'.input,
                                             session_context, outcome)).node
                       = handler_call(last'.node, Session(sid), last'.input,
                                      session_context, outcome).res.state["current_node"]
      ]_vars

----------------------------------------------------------------------------
(* main.py: the compiled graph.  last.node is the node the graph runs      *)
(* next, last.rag holds the state, last.sent the state run_workflow was    *)
(* given, and last.status is the count of node executions, kept modulo     *)
(* MaxNodeExecutions.                                                      *)

MaxNodeExecutions == 3

\* create_initial_state()
create_initial_state ==
    [name |-> None, history |-> <<>>, retry_count |-> 0,
     current_node |-> "collect_name", next_question |-> None,
     session_id |-> None, last_query |-> None, conversation_ended |-> FALSE]

\* the states run_workflow is given
WorkflowStates ==
    {[create_initial_state EXCEPT !.name = name, !.current_node = current_node,
                                  !.last_query = last_query,
                                  !.conversation_ended = conversation_ended] :
        name \in {None, "a"}, current_node \in supported_nodes,
        last_query \in {None, "bye", "fees?"}, conversation_ended \in BOOLEAN}

\* the edges out of a node: the conditional edges call the node's router on
\* the state, goodbye has the edge to END
workflow_edge(node, state) ==
    IF node = "collect_name" THEN collect_name_router(state)
    ELSE IF node = "university_chat" THEN university_chat_router(state)
    ELSE [raised |-> FALSE, exc |-> "", node |-> END]

\* the graph is inside invoke
Invoking == last.op = "run_workflow" /\ last.node \in supported_nodes

\* run_workflow(state): invoke enters the graph at its entry point
RunWorkflow ==
    /\ ~Invoking
    /\ \E state \in WorkflowStates :
           last' = [NoOp EXCEPT !.op = "run_workflow", !.node = "collect_name",
                                !.sent = <<state>>, !.rag = <<state>>]
    /\ UNCHANGED <<session_store, session_context, issued>>

\* one node execution: partial(handler, llm)(state), then the edge out of
\* the node; an exception of the router ends invoke
WorkflowStep ==
    /\ Invoking
    /\ last' = [last EXCEPT
                  !.rag = <<call_func(last.node, last.rag[1], None, session_context,
                                      NoRag).res.state>>,
                  !.status = (last.status + 1) % MaxNodeExecutions,
                  !.node = IF workflow_edge(last.node,
                                            call_func(last.node, last.rag[1], None,
                                                      session_context, NoRag).res.state).raised
                           THEN "raised"
                           ELSE workflow_edge(last.node,
                                              call_func(last.node, last.rag[1], None,
                                                        session_context, NoRag).res.state).node]
    /\ session_context' = call_func(last.node, last.rag[1], None, session_context,
                                    NoRag).res.ctx
    /\ UNCHANGED <<session_store, issued>>

NextWorkflow == RunWorkflow \/ WorkflowStep

\* invoke runs node after node for as long as there is one to run
SpecWorkflow == Init /\ [][NextWorkflow]_vars /\ WF_vars(WorkflowStep)

\* C27: run_workflow terminates: invoked on the initial state, the graph
\* reaches goodbye and END after finitely many node executions and does not
\* stay in collect_name forever.
C27_WorkflowTerminates ==
    (last.op = "run_workflow" /\ last.sent = <<create_initial_state>>)
        ~> (last.op = "run_workflow" /\ last.node = END)

----------------------------------------------------------------------------
(* The RAG client asked by one session, often enough for its context to    *)
(* fill.  last.sent keeps every exchange of the session that was answered. *)

\* the number of answered exchanges of the session
MaxAnswered == 11

\* one call of query_university_info for the session
RagAsk ==
    \E question \in Questions, outcome \in TurnOutcomes :
        /\ Len(last.sent) + (IF outcome.kind = "ok" THEN 1 ELSE 0) <= MaxAnswered
        /\ session_context' = query_university_info(session_context, question,
                                                    "s1", outcome).ctx
        /\ last' = [NoOp EXCEPT
                      !.op = "query_university_info", !.sid = "s1",
                      !.input = question, !.rag = <<outcome>>,
                      !.sent = IF outcome.kind = "ok"
                               THEN Append(last.sent,
                                           [question |-> question,
                                            response |-> query_university_info(
                                                session_context, question,
                                                "s1", outcome).value])
                               ELSE last.sent]
        /\ UNCHANGED <<session_store, issued>>

SpecRagLong == Init /\ [][RagAsk]_vars

\* C28: after any sequence of RAG queries the stored context of a session
\* holds at most 10 exchanges, and they are the most recent answered
\* exchanges of the session in the order they were answered; a failed query
\* adds nothing.
C28_ContextIsRecentAnswers ==
    /\ Len(Get(session_context, "s1", <<>>)) <= 10
    /\ Get(session_context, "s1", <<>>)
          = SubSeq(last.sent,
                   IF Len(last.sent) > 10 THEN Len(last.sent) - 9 ELSE 1,
                   Len(last.sent))
    /\ DOMAIN session_context \subseteq {"s1"}

\* the eleventh answer has pushed the first one out of the context, and a
\* failed query came after it
C28_Witness ==
    /\ last.op = "query_university_info"
    /\ Len(last.sent) = 11
    /\ last.sent[1] # last.sent[2]
    /\ last.rag[1].kind # "ok"
    /\ Len(session_context["s1"]) = 10
    /\ session_context["s1"][1] = last.sent[2]

C30_SessionsIsolated ==
    [][\A B \in DOMAIN session_store :
          /\ (last'.op \in {"chat", "chat_waiting", "end_session"} /\ last'.sid # B)
                => /\ B \in DOMAIN session_store'
                   /\ session_store'[B] = session_store[B]
                   /\ B \in DOMAIN session_context' <=> B \in DOMAIN session_context
                   /\ Get(session_context', B, <<>>) = Get(session_context, B, <<>>)
          /\ last'.op = "init_session"
                => /\ B \in DOMAIN session_store'
                   /\ session_store'[B] = session_store[B]
      ]_vars

\* a session has been ended while another one, with a history and a RAG
\* context of its own, is in the store
C30_Witness ==
    /\ last.op = "end_session" /\ last.status = 200
    /\ \E B \in DOMAIN session_store :
           /\ B # last.sid
           /\ B \in DOMAIN session_context
           /\ Len(session_context[B]) > 0
           /\ Len(Session(B)["history"]) > 0

====
